---- MODULE Spec2Model ----
(***************************************************************************)
(* Complaint backend: CSRF token lifecycle (issue, validate, expire,       *)
(* consume), rate limiter, field validation, sanitization and the mail     *)
(* relay hand-off of POST /send-complaint.                                 *)
(*                                                                         *)
(* src/server.js        the deployment with the CSRF gate                  *)
(* src/unnamed/part_000 the deployment with validators and sanitize        *)
(*                                                                         *)
(* Time is counted in milliseconds since the process started; Date.now()   *)
(* is EpochBase + now, EpochBase a multiple of 10^8 of 13 digits. A        *)
(* handler runs at one instant of the clock.                               *)
(* Strings are sequences of one-character strings.                         *)
(* crypto.randomBytes yields a value never seen before: the minted session *)
(* identifiers and tokens are numbered 1, 2, ...; 0 stands for a value a   *)
(* client made up. A client presents the cookies it likes among the values *)
(* minted so far, the made-up one, or none.                                *)
(***************************************************************************)
EXTENDS Integers, Sequences, FiniteSets, TLC

(***************************************************************************)
(* Bounds of the model                                                     *)
(***************************************************************************)
\* minted session identifiers are 1..MaxSessions (0 is a client-chosen one)
MaxSessions == 1
\* tokens minted by generateSecureToken are 1..MaxTokens
MaxTokens == 2
\* requests waiting on the mail relay at once
MaxPending == 2
\* the strings handed to sanitize on its own have at most MaxLen characters
MaxLen == 5
\* the clock visits the instants up to MaxJitter ms after a specification's marks
MaxJitter == 1
\* requests of one address followed in one window of the limiter, besides the
\* request that exceeds limiter.max
MaxHits == 2

(***************************************************************************)
(* JavaScript values of the request body's fields                          *)
(***************************************************************************)
Undefined == [t |-> "undefined", s |-> <<>>, n |-> 0]
Str(chars) == [t |-> "string", s |-> chars, n |-> 0]
Num(k) == [t |-> "number", s |-> <<>>, n |-> k]
\* a date-formatted string (no markup, no outer whitespace) that Date parses
\* to the instant k of the model's clock
DateStr(k) == [t |-> "date", s |-> <<>>, n |-> k]

IsString(v) == v.t \in {"string", "date"}

\* !value
Falsy(v) ==
  \/ v.t = "undefined"
  \/ v.t = "string" /\ v.s = <<>>
  \/ v.t = "number" /\ v.n = 0

Lower == {"a","b","c","d","e","f","g","h","i","j","k","l","m","n","o","p","q","r","s","t","u","v","w","x","y","z"}
Upper == {"A","B","C","D","E","F","G","H","I","J","K","L","M","N","O","P","Q","R","S","T","U","V","W","X","Y","Z"}
Digit == {"0","1","2","3","4","5","6","7","8","9"}
WhiteSpace == {" ", "\t", "\n"}

DigitChar(d) == CASE d = 0 -> "0" [] d = 1 -> "1" [] d = 2 -> "2" [] d = 3 -> "3"
                  [] d = 4 -> "4" [] d = 5 -> "5" [] d = 6 -> "6" [] d = 7 -> "7"
                  [] d = 8 -> "8" [] OTHER -> "9"

RECURSIVE Decimal(_)
\* Number.prototype.toString of a non-negative integer
Decimal(k) == IF k < 10 THEN <<DigitChar(k)>> ELSE Append(Decimal(k \div 10), DigitChar(k % 10))

\* String(value), as a template literal or RegExp.test converts its argument
ToStr(v) ==
  CASE v.t = "string" -> v.s
    [] v.t = "number" -> Decimal(v.n)
    [] v.t = "undefined" -> <<"u","n","d","e","f","i","n","e","d">>
    [] OTHER -> <<"d","a","t","e">>

\* value.length
Length(v) == IF v.t = "string" THEN Len(v.s) ELSE IF v.t = "date" THEN 10 ELSE -1

RECURSIVE TrimLeft(_)
TrimLeft(s) == IF s # <<>> /\ Head(s) \in WhiteSpace THEN TrimLeft(Tail(s)) ELSE s

RECURSIVE TrimRight(_)
TrimRight(s) ==
  IF s # <<>> /\ s[Len(s)] \in WhiteSpace THEN TrimRight(SubSeq(s, 1, Len(s) - 1)) ELSE s

\* String.prototype.trim
Trim(s) == TrimRight(TrimLeft(s))

AllIn(s, class) == \A i \in 1..Len(s) : s[i] \in class

Rep(c, k) == [i \in 1..k |-> c]

(***************************************************************************)
(* Regular expressions and Date                                            *)
(***************************************************************************)
\* /^\S+@\S+\.\S+$/.test(s)
EmailShapeLoose(s) ==
  /\ \A i \in 1..Len(s) : s[i] \notin WhiteSpace
  /\ \E i \in 2..Len(s) : /\ s[i] = "@"
                          /\ \E j \in (i + 2)..(Len(s) - 1) : s[j] = "."

\* /^[^\s@]+@[^\s@]+\.[^\s@]+$/.test(s)
EmailShapeStrict(s) ==
  /\ \A i \in 1..Len(s) : s[i] \notin WhiteSpace
  /\ Cardinality({i \in 1..Len(s) : s[i] = "@"}) = 1
  /\ \E i \in 2..Len(s) : /\ s[i] = "@"
                          /\ \E j \in (i + 2)..(Len(s) - 1) : s[j] = "."

\* /^\+?[0-9]{10,15}$/.test(s)
PhoneShape(s) ==
  LET digits == IF s # <<>> /\ Head(s) = "+" THEN Tail(s) ELSE s
  IN  Len(digits) >= 10 /\ Len(digits) <= 15 /\ AllIn(digits, Digit)

\* /^[a-zA-Z0-9_]+$/.test(s)
WordShape(s) == s # <<>> /\ AllIn(s, Lower \cup Upper \cup Digit \cup {"_"})

\* /^[a-zA-Z0-9-_]+$/.test(s)
IdShape(s) == s # <<>> /\ AllIn(s, Lower \cup Upper \cup Digit \cup {"-", "_"})

\* new Date(value): a number is an instant of 1970, before the process started
NewDate(v) ==
  CASE v.t = "date" -> [nan |-> FALSE, ms |-> v.n]
    [] v.t = "number" -> [nan |-> FALSE, ms |-> -1]
    [] OTHER -> [nan |-> TRUE, ms |-> 0]

(***************************************************************************)
(* Validator (src/unnamed/part_000)                                        *)
(***************************************************************************)
Fields == {"username", "email", "gameId", "platform", "issueType", "description",
           "dateOfIssue", "phoneNumber"}

PENASLOT == <<"P","E","N","A","S","L","O","T">>

validIssueTypes ==
  { <<"D","e","p","o","s","i","t","/","P","e","n","a","r","i","k","a","n"," ","B","e","r","m","a","s","a","l","a","h">>,
    <<"K","e","r","u","s","a","k","a","n"," ","G","a","m","e">>,
    <<"M","a","s","a","l","a","h"," ","A","k","s","e","s"," ","A","k","u","n">>,
    <<"M","a","s","a","l","a","h"," ","B","o","n","u","s","/","P","r","o","m","o","s","i">>,
    <<"K","e","s","a","l","a","h","a","n"," ","P","r","o","s","e","s"," ","P","e","m","b","a","y","a","r","a","n">>,
    <<"L","o","g","o","u","t"," ","T","i","b","a","-","t","i","b","a">>,
    <<"M","a","s","a","l","a","h"," ","P","e","m","b","a","y","a","r","a","n"," ","J","a","c","k","p","o","t">>,
    <<"L","a","i","n","n","y","a">> }

validators_username(v) ==
  /\ v.t = "string"
  /\ Len(Trim(v.s)) >= 3
  /\ Len(Trim(v.s)) <= 50
  /\ WordShape(v.s)

validators_email(v) ==
  /\ v.t = "string"
  /\ EmailShapeStrict(v.s)
  /\ Len(v.s) <= 100

validators_gameId(v) ==
  IF Falsy(v) THEN TRUE
  ELSE /\ v.t = "string"
       /\ Len(Trim(v.s)) <= 50
       /\ IdShape(v.s)

validators_platform(v) == v = Str(PENASLOT)

validators_issueType(v) == v.t = "string" /\ v.s \in validIssueTypes

validators_description(v) ==
  /\ v.t = "string"
  /\ Len(Trim(v.s)) > 0
  /\ Len(Trim(v.s)) <= 2000

\* today is the instant new Date() reads
validators_dateOfIssue(v, today) ==
  LET date == NewDate(v)
  IN  ~date.nan /\ date.ms <= today

validators_phoneNumber(v) == v.t = "string" /\ PhoneShape(v.s)

\* validators[field](body[field])
validators(field, v, today) ==
  CASE field = "username" -> validators_username(v)
    [] field = "email" -> validators_email(v)
    [] field = "gameId" -> validators_gameId(v)
    [] field = "platform" -> validators_platform(v)
    [] field = "issueType" -> validators_issueType(v)
    [] field = "description" -> validators_description(v)
    [] field = "dateOfIssue" -> validators_dateOfIssue(v, today)
    [] OTHER -> validators_phoneNumber(v)

\* the keys of validationErrors of src/unnamed/part_000
ValidationErrorsStrict(body, today) == {f \in Fields : ~validators(f, body[f], today)}

(***************************************************************************)
(* Sanitizer (src/unnamed/part_000)                                        *)
(***************************************************************************)
\* the index after the match of [^>]+(>|$) that starts at index i: after the next ">",
\* or after the end of s
SkipTag(s, i) ==
  LET closes == {j \in i..Len(s) : s[j] = ">"}
  IN  IF closes = {} THEN Len(s) + 1
      ELSE (CHOOSE j \in closes : \A k \in closes : j <= k) + 1

RECURSIVE StripFrom_First(_, _)
\* a replace without the g flag: the first match is removed, the rest is kept
StripFrom_First(s, i) ==
  IF i > Len(s) THEN <<>>
  ELSE IF s[i] = "<" /\ i < Len(s) /\ s[i + 1] # ">"
       THEN SubSeq(s, SkipTag(s, i + 1), Len(s))
       ELSE <<s[i]>> \o StripFrom_First(s, i + 1)

RECURSIVE StripFrom(_, _)
\* s.replace(/<\/?[^>]+(>|$)/g, "") from index i on: a "<" starts a match iff a
\* character other than ">" follows it, and the match runs to the next ">" or the end
StripFrom(s, i) ==
  LET starts == {j \in i..(Len(s) - 1) : s[j] = "<" /\ s[j + 1] # ">"}
  IN  IF starts = {} THEN SubSeq(s, i, Len(s))
      ELSE LET j == CHOOSE m \in starts : \A k \in starts : m <= k
           IN  SubSeq(s, i, j - 1) \o StripFrom(s, SkipTag(s, j + 1))

StripTags(s) == StripFrom(s, 1)

sanitize(v) == IF v.t = "string" THEN Str(Trim(StripTags(v.s))) ELSE v

(***************************************************************************)
(* Field checks of POST /send-complaint in src/server.js                   *)
(***************************************************************************)
\* the keys of validationErrors of src/server.js (no check of gameId, platform)
ValidationErrors(body, today) ==
  LET username == body.username
      email == body.email
      issueType == body.issueType
      description == body.description
      dateOfIssue == body.dateOfIssue
      phoneNumber == body.phoneNumber
      date == NewDate(dateOfIssue)
  IN  {f \in Fields :
        \/ f = "username" /\ (Falsy(username) \/ (IsString(username) /\ (Length(username) < 3 \/ Length(username) > 50)))
        \/ f = "email" /\ (Falsy(email) \/ ~EmailShapeLoose(ToStr(email)))
        \/ f = "issueType" /\ Falsy(issueType)
        \/ f = "description" /\ (Falsy(description) \/ (IsString(description) /\ Length(description) > 2000))
        \/ f = "dateOfIssue" /\ (Falsy(dateOfIssue) \/ (~date.nan /\ date.ms > today))
        \/ f = "phoneNumber" /\ (Falsy(phoneNumber) \/ ~PhoneShape(ToStr(phoneNumber)))}

(***************************************************************************)
(* Program constants                                                       *)
(***************************************************************************)
\* limiter.windowMs
WindowMs == 15 * 60 * 1000
\* limiter.max
RateMax == 10
\* generateSecureToken: expires - Date.now()
TokenTtlMs == 30 * 60 * 1000
\* the digits of Date.now() above the last eight, when the process started
EpochHigh == 17000

(***************************************************************************)
(* Inputs                                                                  *)
(***************************************************************************)
\* a cookie the request does not carry
NoCookie == -1
SessionIds == 0..MaxSessions
TokenIds == 0..MaxTokens
IPs == {1}

\* the marks and the instants up to MaxJitter ms after them
TimesAround(marks) == {m + j : m \in marks, j \in 0..MaxJitter}

Lainnya == <<"L","a","i","n","n","y","a">>

\* a body every validator of src/unnamed/part_000 accepts
ValidBody ==
  [username |-> Str(<<"b","u","d","i","_","1">>),
   email |-> Str(<<"b","@","x",".","i","d">>),
   gameId |-> Undefined,
   platform |-> Str(PENASLOT),
   issueType |-> Str(Lainnya),
   description |-> Str(<<"s","a","l","d","o">>),
   dateOfIssue |-> DateStr(0),
   phoneNumber |-> Str(<<"+","6","2","8","1","2","3","4","5","6","7","8">>)]

\* req.body of the requests of the model; body 0 is a request without a parsed body
Bodies ==
  << ValidBody,
     [ValidBody EXCEPT !.username = Str(<<"b","u">>), !.phoneNumber = Str(Rep("1", 9))],
     [ValidBody EXCEPT !.description = Str(<<"<","b",">","h","i","<","/","b",">"," ">>)],
     [ValidBody EXCEPT !.platform = Str(<<"X">>)],
     [ValidBody EXCEPT !.description = Str(Rep("a", 2000) \o <<" ">>)] >>
BodyIds == 0..Len(Bodies)

(***************************************************************************)
(* State                                                                   *)
(***************************************************************************)
VARIABLES
  now,          \* the clock: Date.now() - EpochBase
  tokenStore,   \* the Map sessionId -> {token, expires}
  hits,         \* the limiter's store: ip -> {totalHits, resetTime}
  pending,      \* the requests whose sendMail callback has not run
  nextSession,  \* the next session identifier crypto.randomBytes(16) yields
  nextToken,    \* the next token crypto.randomBytes(32) yields
  okCount,      \* per token, the number of 200 responses sent to its submissions
  last,         \* what the last step did: the request and the response sent
  text,         \* a value handed to sanitize, and what sanitize made of it
  reached       \* per address and instant, the submissions the limiter let through

vars == <<now, tokenStore, hits, pending, nextSession, nextToken, okCount, last, text,
          reached>>

\* no value has been handed to sanitize
NoText == [input |-> Undefined, first |-> Undefined, value |-> Undefined, applied |-> 0]

NoEvent ==
  [op |-> "none", ip |-> 0, sid |-> NoCookie, token |-> NoCookie, body |-> 0, slot |-> 0,
   status |-> 0, message |-> "", errors |-> {}, ref |-> <<>>, relayError |-> FALSE]

Init ==
  /\ now = 0
  /\ tokenStore = <<>>
  \* an address has sent nothing yet, or has sent limiter.max requests at instant 0
  /\ \E used \in {0, RateMax} :
       hits = [ip \in IPs |-> [totalHits |-> used,
                               resetTime |-> IF used = 0 THEN 0 ELSE WindowMs]]
  /\ pending = {}
  /\ nextSession = 1
  /\ nextToken = 1
  /\ okCount = [t \in 1..MaxTokens |-> 0]
  /\ last = NoEvent
  /\ text = NoText
  /\ reached = [ip \in IPs |-> <<>>]

(***************************************************************************)
(* Token store                                                             *)
(***************************************************************************)
\* a set that leaves the record of a key the Map already holds
MapSet_KeepExisting(store, key, data) ==
  [k \in DOMAIN store \cup {key} |-> IF k \in DOMAIN store THEN store[k] ELSE data]

\* tokenStore.set(key, data)
MapSet(store, key, data) ==
  [k \in DOMAIN store \cup {key} |-> IF k = key THEN data ELSE store[k]]

\* a delete that removes nothing
MapDelete_Keep(store, key) == store

\* tokenStore.delete(key)
MapDelete(store, key) == [k \in DOMAIN store \ {key} |-> store[k]]

generateSecureToken == [token |-> nextToken, expires |-> now + TokenTtlMs]

\* data.expires < Date.now()
Expired(data, t) == data.expires < t

\* a loop whose comparison is inverted: it deletes the records that have not expired
Sweep_Inverted(store, t) ==
  [k \in {key \in DOMAIN store : Expired(store[key], t)} |-> store[k]]

\* the loop that deletes the expired records
Sweep(store, t) ==
  [k \in {key \in DOMAIN store : ~Expired(store[key], t)} |-> store[k]]

\* a validation that does not compare the presented token with the stored one
CsrfPasses_NoCompare(store, t, sessionId, csrfToken) ==
  /\ sessionId # NoCookie
  /\ csrfToken # NoCookie
  /\ sessionId \in DOMAIN store
  /\ ~Expired(store[sessionId], t)

\* whether validateCsrfToken calls next(), the store being store at instant t
CsrfPasses(store, t, sessionId, csrfToken) ==
  /\ sessionId # NoCookie
  /\ csrfToken # NoCookie
  /\ sessionId \in DOMAIN store
  /\ store[sessionId].token = csrfToken
  /\ ~Expired(store[sessionId], t)

validateCsrfToken(sessionId, csrfToken) == CsrfPasses(tokenStore, now, sessionId, csrfToken)

(***************************************************************************)
(* GET /get-csrf-token                                                     *)
(***************************************************************************)
\* an issuance that waits until no request waits for the relay
GetCsrfToken_Serial(cookieSid) ==
  /\ pending = {}
  /\ nextToken <= MaxTokens
  /\ cookieSid = NoCookie => nextSession <= MaxSessions
  /\ LET sessionId == IF cookieSid # NoCookie THEN cookieSid ELSE nextSession
         tokenData == generateSecureToken
     IN  /\ tokenStore' = Sweep(MapSet(tokenStore, sessionId, tokenData), now)
         /\ nextSession' = IF cookieSid = NoCookie THEN nextSession + 1 ELSE nextSession
         /\ nextToken' = nextToken + 1
         /\ last' = [NoEvent EXCEPT !.op = "issue", !.sid = sessionId,
                                    !.token = tokenData.token, !.status = 200]
  /\ UNCHANGED <<now, hits, pending, okCount>>

GetCsrfToken(cookieSid) ==
  /\ nextToken <= MaxTokens
  /\ cookieSid = NoCookie => nextSession <= MaxSessions
  /\ LET sessionId == IF cookieSid # NoCookie THEN cookieSid ELSE nextSession
         tokenData == generateSecureToken
     IN  /\ tokenStore' = Sweep(MapSet(tokenStore, sessionId, tokenData), now)
         /\ nextSession' = IF cookieSid = NoCookie THEN nextSession + 1 ELSE nextSession
         /\ nextToken' = nextToken + 1
         /\ last' = [NoEvent EXCEPT !.op = "issue", !.sid = sessionId,
                                    !.token = tokenData.token, !.status = 200]
  /\ UNCHANGED <<now, hits, pending, okCount>>

(***************************************************************************)
(* Rate limiter (express-rate-limit, memory store, one window per key)     *)
(***************************************************************************)
\* the key's record after this request is counted
Increment(client, t) ==
  IF client.resetTime <= t
  THEN [totalHits |-> 1, resetTime |-> t + WindowMs]
  ELSE [client EXCEPT !.totalHits = @ + 1]

\* a limiter that lets limiter.max + 1 requests of a window through
Limited_OneMore(client) == client.totalHits > RateMax + 1

\* totalHits > limiter.max
Limited(client) == client.totalHits > RateMax

(***************************************************************************)
(* POST /send-complaint                                                    *)
(***************************************************************************)
\* Date.now().toString()
DateNowString(t) ==
  LET low == Decimal(t % 100000000)
  IN  Decimal(EpochHigh + (t \div 100000000)) \o Rep("0", 8 - Len(low)) \o low

\* `PENA-${Date.now().toString().slice(-8)}`
refNumber(t) ==
  LET str == DateNowString(t)
  IN  <<"P","E","N","A","-">> \o SubSeq(str, Len(str) - 7, Len(str))

\* ${value} in the template literals of mailOptions
Embed(v) == IF v.t = "date" THEN v ELSE Str(ToStr(v))

\* the values mailOptions embeds in subject and text
mailOptions(body, ref) ==
  [username |-> Embed(body.username),
   email |-> Embed(body.email),
   phoneNumber |-> Embed(body.phoneNumber),
   platform |-> Embed(body.platform),
   issueType |-> Embed(body.issueType),
   gameId |-> IF Falsy(body.gameId) THEN Str(<<"N","/","A">>) ELSE Embed(body.gameId),
   dateOfIssue |-> Embed(body.dateOfIssue),
   description |-> Embed(body.description),
   refNumber |-> ref]

FreeSlot == CHOOSE k \in 1..(MaxPending + 1) : \A p \in pending : p.slot # k

Respond(req, status, message) == [req EXCEPT !.status = status, !.message = message]

\* the middleware chain limiter, validateCsrfToken, handler on one request; the model
\* follows a window of the limiter up to its hit number hitBound, and at limiter.max + 1
PostSendComplaint(ip, sessionId, csrfToken, b, hitBound) ==
  LET client == Increment(hits[ip], now)
      req == [NoEvent EXCEPT !.op = "post", !.ip = ip, !.sid = sessionId,
                             !.token = csrfToken, !.body = b]
  IN  /\ client.totalHits <= hitBound \/ client.totalHits = RateMax + 1
      /\ hits' = [hits EXCEPT ![ip] = client]
      /\ UNCHANGED <<now, tokenStore, nextSession, nextToken, okCount>>
      /\ IF Limited(client)
         THEN /\ last' = Respond(req, 429, "Too many requests.")
              /\ UNCHANGED pending
         ELSE IF sessionId = NoCookie \/ csrfToken = NoCookie
         THEN /\ last' = Respond(req, 403, "Gagal memverifikasi permintaan. Coba lagi.")
              /\ UNCHANGED pending
         ELSE IF ~validateCsrfToken(sessionId, csrfToken)
         THEN /\ last' = Respond(req, 403, "Token CSRF tidak valid atau kedaluwarsa.")
              /\ UNCHANGED pending
         ELSE IF b = 0
         THEN \* destructuring an undefined req.body throws: the catch block
              /\ last' = Respond(req, 500, "Terjadi kesalahan pada server")
              /\ UNCHANGED pending
         ELSE LET validationErrors == ValidationErrors(Bodies[b], now)
              IN  IF validationErrors # {}
                  THEN /\ last' = [Respond(req, 400, "Data tidak valid")
                                     EXCEPT !.errors = validationErrors]
                       /\ UNCHANGED pending
                  ELSE /\ Cardinality(pending) < MaxPending
                       /\ pending' = pending \cup
                            {[slot |-> FreeSlot, sid |-> sessionId, token |-> csrfToken,
                              body |-> b, ref |-> refNumber(now),
                              mail |-> mailOptions(Bodies[b], refNumber(now))]}
                       /\ last' = [req EXCEPT !.op = "sendMail", !.slot = FreeSlot,
                                              !.ref = refNumber(now)]

SendComplaint(ip, sessionId, csrfToken, b) ==
  PostSendComplaint(ip, sessionId, csrfToken, b, MaxHits)

\* a callback that does not look at error
RelayFailed_Never(error) == FALSE

\* if (error) of the callback
RelayFailed(error) == error

\* a callback that deletes the record before it looks at error
CallbackStore_Always(store, sessionId, error) ==
  IF sessionId # NoCookie THEN MapDelete(store, sessionId) ELSE store

\* the store the callback leaves: the session's record is deleted on success only
CallbackStore(store, sessionId, error) ==
  IF RelayFailed(error) THEN store
  ELSE IF sessionId # NoCookie THEN MapDelete(store, sessionId)
  ELSE store

\* a callback after which the request still waits for the relay, to be answered again
SendMailCallback_KeepPending(p, error) ==
  LET req == [NoEvent EXCEPT !.op = "callback", !.sid = p.sid, !.token = p.token,
                             !.body = p.body, !.slot = p.slot, !.relayError = error]
  IN  /\ UNCHANGED <<now, hits, nextSession, nextToken, pending>>
      /\ tokenStore' = CallbackStore(tokenStore, p.sid, error)
      /\ IF RelayFailed(error)
         THEN /\ last' = Respond(req, 500, "Gagal mengirim email")
              /\ UNCHANGED okCount
         ELSE /\ okCount' = IF p.token \in DOMAIN okCount
                            THEN [okCount EXCEPT ![p.token] = @ + 1] ELSE okCount
              /\ last' = [Respond(req, 200, "") EXCEPT !.ref = p.ref]

\* the callback of transport.sendMail
SendMailCallback(p, error) ==
  LET req == [NoEvent EXCEPT !.op = "callback", !.sid = p.sid, !.token = p.token,
                             !.body = p.body, !.slot = p.slot, !.relayError = error]
  IN  /\ pending' = pending \ {p}
      /\ UNCHANGED <<now, hits, nextSession, nextToken>>
      /\ tokenStore' = CallbackStore(tokenStore, p.sid, error)
      /\ IF RelayFailed(error)
         THEN /\ last' = Respond(req, 500, "Gagal mengirim email")
              /\ UNCHANGED okCount
         ELSE /\ okCount' = IF p.token \in DOMAIN okCount
                            THEN [okCount EXCEPT ![p.token] = @ + 1] ELSE okCount
              /\ last' = [Respond(req, 200, "") EXCEPT !.ref = p.ref]

\* time passes
Tick(t) ==
  /\ t > now
  /\ now' = t
  /\ last' = [NoEvent EXCEPT !.op = "tick"]
  /\ UNCHANGED <<tokenStore, hits, pending, nextSession, nextToken, okCount>>

\* the steps of the program on requests with a body in bodies, the clock visiting times
NextOn(bodies, times) ==
  \/ \E cookieSid \in {NoCookie} \cup 0..(nextSession - 1) :
       GetCsrfToken(cookieSid) /\ UNCHANGED <<text, reached>>
  \/ \E ip \in IPs, sessionId \in {NoCookie} \cup 0..(nextSession - 1),
        csrfToken \in {NoCookie} \cup 0..(nextToken - 1), b \in bodies :
       SendComplaint(ip, sessionId, csrfToken, b) /\ UNCHANGED <<text, reached>>
  \/ \E p \in pending, error \in BOOLEAN :
       SendMailCallback(p, error) /\ UNCHANGED <<text, reached>>
  \/ \E t \in times : Tick(t) /\ UNCHANGED <<text, reached>>

\* the token lifecycle: requests without a body, with a valid one and an invalid one,
\* the clock around the issue of a token and around its expiry
Next == NextOn({0, 1, 2}, TimesAround({0, TokenTtlMs}))

Spec == Init /\ [][Next]_vars

(***************************************************************************)
(* POST /send-complaint of src/unnamed/part_000: no CSRF gate, no token     *)
(* store; the process has its own limiter, mounted on the path             *)
(***************************************************************************)
\* sanitizedData
sanitizedData(body) == [f \in Fields |-> sanitize(body[f])]

\* mailOptions of src/unnamed/part_000: the values of sanitizedData
SanitizedMail(body, ref) == mailOptions(sanitizedData(body), ref)

SendComplaint_part000(ip, b) ==
  LET client == Increment(hits[ip], now)
      req == [NoEvent EXCEPT !.op = "post", !.ip = ip, !.body = b]
  IN  /\ client.totalHits <= MaxHits \/ client.totalHits = RateMax + 1
      /\ hits' = [hits EXCEPT ![ip] = client]
      /\ UNCHANGED <<now, tokenStore, nextSession, nextToken, okCount>>
      /\ IF Limited(client)
         THEN /\ last' = Respond(req, 429, "Terlalu banyak permintaan, coba lagi nanti")
              /\ UNCHANGED pending
         ELSE IF b = 0
         THEN /\ last' = Respond(req, 500, "Terjadi kesalahan pada server")
              /\ UNCHANGED pending
         ELSE LET validationErrors == ValidationErrorsStrict(Bodies[b], now)
              IN  IF validationErrors # {}
                  THEN /\ last' = [Respond(req, 400, "Data tidak valid")
                                     EXCEPT !.errors = validationErrors]
                       /\ UNCHANGED pending
                  ELSE /\ Cardinality(pending) < MaxPending
                       /\ pending' = pending \cup
                            {[slot |-> FreeSlot, sid |-> NoCookie, token |-> NoCookie,
                              body |-> b, ref |-> refNumber(now),
                              mail |-> SanitizedMail(Bodies[b], refNumber(now))]}
                       /\ last' = [req EXCEPT !.op = "sendMail", !.slot = FreeSlot,
                                              !.ref = refNumber(now)]

\* the callback of transport.sendMail of src/unnamed/part_000
SendMailCallback_part000(p, error) ==
  LET req == [NoEvent EXCEPT !.op = "callback", !.body = p.body, !.slot = p.slot,
                             !.relayError = error]
  IN  /\ pending' = pending \ {p}
      /\ UNCHANGED <<now, tokenStore, hits, nextSession, nextToken, okCount>>
      /\ IF error
         THEN last' = Respond(req, 500, "Gagal mengirim email")
         ELSE last' = [Respond(req, 200, "") EXCEPT !.ref = p.ref]

Next_part000 ==
  \/ \E ip \in IPs, b \in BodyIds :
       SendComplaint_part000(ip, b) /\ UNCHANGED <<text, reached>>
  \/ \E p \in pending, error \in BOOLEAN :
       SendMailCallback_part000(p, error) /\ UNCHANGED <<text, reached>>
  \/ \E t \in TimesAround({0, WindowMs}) : Tick(t) /\ UNCHANGED <<text, reached>>

\* the deployment of src/unnamed/part_000
Spec_part000 == Init /\ [][Next_part000]_vars

\* the complaint form: every body of Bodies, the clock around the start
NextForm == NextOn(BodyIds, TimesAround({0}))

SpecForm == Init /\ [][NextForm]_vars

(***************************************************************************)
(* The relay calls back for every call made to it: the callback of a       *)
(* request that waits for the relay is eventually run                      *)
(***************************************************************************)
\* the callback of the request that waits in slot
CallbackOf(slot) ==
  \E p \in pending, error \in BOOLEAN :
    p.slot = slot /\ SendMailCallback(p, error) /\ UNCHANGED <<text, reached>>

NextRelay == NextOn({0, 1, 2}, TimesAround({0}))

SpecRelay ==
  Init /\ [][NextRelay]_vars /\ \A slot \in 1..MaxPending : WF_vars(CallbackOf(slot))

(***************************************************************************)
(* The limiter of POST /send-complaint: an address sends up to limiter.max *)
(* + 1 submissions per window, without cookies or with the cookies it was  *)
(* issued, around the end of its first window                              *)
(***************************************************************************)
\* the record of an address after one more submission went past the limiter at instant t
Reach(r, t) ==
  [k \in DOMAIN r \cup {t} |-> IF k = t THEN (IF t \in DOMAIN r THEN r[t] ELSE 0) + 1
                                ELSE r[k]]

\* no submission has been sent
InitLimit == Init /\ \A ip \in IPs : hits[ip].totalHits = 0

NextLimit ==
  \/ GetCsrfToken(NoCookie) /\ UNCHANGED <<text, reached>>
  \/ \E ip \in IPs, b \in {1, 2},
        cookies \in {<<NoCookie, NoCookie>>}
                      \cup {<<k, tokenStore[k].token>> : k \in DOMAIN tokenStore} :
       /\ PostSendComplaint(ip, cookies[1], cookies[2], b, RateMax)
       /\ reached' = IF last'.status = 429 THEN reached
                     ELSE [reached EXCEPT ![ip] = Reach(@, now)]
       /\ UNCHANGED text
  \/ \E p \in pending : SendMailCallback(p, FALSE) /\ UNCHANGED <<text, reached>>
  \/ \E t \in TimesAround({WindowMs - 1}) : Tick(t) /\ UNCHANGED <<text, reached>>

SpecLimit == InitLimit /\ [][NextLimit]_vars

(***************************************************************************)
(* sanitize of src/unnamed/part_000 on its own: a value is handed to       *)
(* sanitize, and the result is handed to it again                          *)
(***************************************************************************)
SanAlphabet == {"<", ">", "/", "a", " "}

Script ==
  <<"<","s","c","r","i","p","t",">","a","l","e","r","t","(","1",")",
    "<","/","s","c","r","i","p","t",">">>

\* the values handed to sanitize: the strings over SanAlphabet of at most MaxLen
\* characters, the script element, and values that are not strings
SanInputs ==
  {Str(chars) : chars \in UNION {[1..n -> SanAlphabet] : n \in 0..MaxLen}}
    \cup {Str(Script), Undefined, Num(5), DateStr(0)}

InitSanitize ==
  /\ now = 0
  /\ tokenStore = <<>>
  /\ hits = [ip \in IPs |-> [totalHits |-> 0, resetTime |-> 0]]
  /\ pending = {}
  /\ nextSession = 1
  /\ nextToken = 1
  /\ okCount = [t \in 1..MaxTokens |-> 0]
  /\ last = NoEvent
  /\ reached = [ip \in IPs |-> <<>>]
  /\ \E v \in SanInputs : text = [NoText EXCEPT !.input = v, !.value = v]

\* value = sanitize(value)
ApplySanitize ==
  /\ text.applied < 2
  /\ text' = [text EXCEPT !.value = sanitize(@), !.applied = @ + 1,
                          !.first = IF text.applied = 0 THEN sanitize(text.value) ELSE @]
  /\ UNCHANGED <<now, tokenStore, hits, pending, nextSession, nextToken, okCount, last,
                 reached>>

NextSanitize == ApplySanitize

SpecSanitize == InitSanitize /\ [][NextSanitize]_vars

(***************************************************************************)
(* Properties                                                              *)
(***************************************************************************)
\* the last step was a submission that arrived (answered at once, or handed to the relay)
Arrived == last.op \in {"post", "sendMail"}

\* the submission that arrived was stopped by the rate limiter, before validateCsrfToken
RateLimited == last.op = "post" /\ last.status = 429

\* the submission that arrived went through validateCsrfToken
PassedCsrf == Arrived /\ last.status \notin {403, 429}

\* C1: at most one submission per issued token receives the 200 response, whatever
\* the interleaving of the requests and of the relay's callbacks.
C1_OneSuccessPerToken == \A t \in DOMAIN okCount : okCount[t] <= 1

\* C2: right after GET /get-csrf-token issues a token the cookies it set pass CSRF
\* validation, and once a submission with a token has been answered 200 every
\* submission that arrives later with that token and reaches validateCsrfToken is
\* answered 403 (whether or not a new token was issued since).
C2_TokenValidOnceThenRejected ==
  /\ last.op = "issue" => validateCsrfToken(last.sid, last.token)
  /\ (Arrived /\ ~RateLimited /\ last.token \in DOMAIN okCount /\ okCount[last.token] > 0)
       => (last.op = "post" /\ last.status = 403)

C2_Witness ==
  /\ last.op = "post"
  /\ last.status = 403
  /\ last.sid # NoCookie
  /\ last.token \in DOMAIN okCount
  /\ okCount[last.token] = 1
  /\ last.sid \notin DOMAIN tokenStore

\* C3: a submission gets through validateCsrfToken only when current time < the
\* record's expiry; at the instant current time = expiry it is rejected.
C3_PassesOnlyBeforeExpiry ==
  PassedCsrf => (last.sid \in DOMAIN tokenStore /\ now < tokenStore[last.sid].expires)

\* the cookies of the submission that arrived fail one of the checks of C4: a
\* cookie is absent, the session has no record, or the token is not the stored one
CsrfMismatch ==
  \/ last.sid = NoCookie
  \/ last.token = NoCookie
  \/ last.sid \notin DOMAIN tokenStore
  \/ tokenStore[last.sid].token # last.token

\* C4: a submission whose sessionId or csrfToken cookie is absent, whose session has
\* no record or whose token is not the stored one is never answered 400 and never
\* handed to the mail relay, whatever its body, and when it reaches validateCsrfToken
\* it is answered 403.
C4_FailsClosed ==
  (Arrived /\ CsrfMismatch) =>
     /\ last.op = "post"
     /\ last.status # 400
     /\ last.errors = {}
     /\ ~RateLimited => last.status = 403

\* a valid body with a token that is not the session's stored one
C4_Witness ==
  /\ last.op = "post"
  /\ last.status = 403
  /\ last.body = 1
  /\ last.sid \in DOMAIN tokenStore
  /\ last.token # NoCookie
  /\ tokenStore[last.sid].token # last.token
\* C5: a step of a submission that is not its 200 response (a 429, 403, 400 or 500
\* answer, or the hand-off to the relay of a submission that may still fail) leaves
\* the token store as it was, so a token that passed validation before the step
\* still passes after it.
C5_FailureLeavesStore ==
  [][ (last'.op \in {"post", "sendMail", "callback"} /\ last'.status # 200) =>
        /\ tokenStore' = tokenStore
        /\ \A sid \in SessionIds, tok \in TokenIds :
             CsrfPasses(tokenStore, now, sid, tok) => CsrfPasses(tokenStore', now', sid, tok)
    ]_vars

\* a relay failure answered 500 with the presented token still stored and valid
C5_Witness ==
  /\ last.op = "callback"
  /\ last.status = 500
  /\ last.relayError
  /\ validateCsrfToken(last.sid, last.token)

\* C6: a 200 response is sent only by the relay's callback, only when the relay
\* reported no error, it carries the reference number, and when it is sent the store
\* holds no record for the request's session.
C6_SuccessAfterConsume ==
  /\ Arrived => last.status # 200
  /\ (last.op = "callback" /\ last.status = 200) =>
       /\ ~last.relayError
       /\ last.sid \notin DOMAIN tokenStore
       /\ last.ref # <<>>

C6_Witness ==
  /\ last.op = "callback"
  /\ last.status = 200
  /\ okCount[last.token] = 1

\* C7: when a session whose record has not expired is issued a new token, the
\* store's record for the session carries the new token, the new token passes
\* validateCsrfToken and the earlier one does not.
C7_ReissueOverwrites ==
  [][ (/\ last'.op = "issue"
       /\ last'.sid \in DOMAIN tokenStore
       /\ ~Expired(tokenStore[last'.sid], now)) =>
        /\ last'.sid \in DOMAIN tokenStore'
        /\ tokenStore'[last'.sid].token = last'.token
        /\ CsrfPasses(tokenStore', now', last'.sid, last'.token)
        /\ ~CsrfPasses(tokenStore', now', last'.sid, tokenStore[last'.sid].token)
    ]_vars

\* the second token of the client-chosen session, issued at instant 0 while the
\* first was neither consumed nor expired
C7_Witness ==
  /\ last.op = "issue"
  /\ last.sid = 0
  /\ last.token = 2
  /\ nextSession = 1
  /\ now = 0
  /\ okCount[1] = 0
  /\ tokenStore[0].token = 2

\* C8: right after GET /get-csrf-token the store holds no record with current
\* time >= its expiry, and it holds the record just issued.
C8_NoExpiredAfterIssue ==
  last.op = "issue" =>
    /\ \A k \in DOMAIN tokenStore : now < tokenStore[k].expires
    /\ last.sid \in DOMAIN tokenStore
    /\ tokenStore[last.sid].token = last.token

\* C9: for a submission that passes the CSRF gate, the keys of errors are exactly the
\* fields that violate their constraint, and it is answered 400 whenever there is one.
C9_ErrorsAreTheInvalidFields ==
  (PassedCsrf /\ last.body # 0) =>
     LET invalid == ValidationErrorsStrict(Bodies[last.body], now)
     IN  /\ last.errors = invalid
         /\ invalid # {} => last.status = 400

\* C10: every field value of a message handed to the mail relay is the sanitized form
\* of the request's value.
C10_MailIsSanitized ==
  \A p \in pending : p.mail = SanitizedMail(Bodies[p.body], p.ref)

\* a substring the pattern of sanitize matches: "<", then a character other than ">"
HasTag(s) == \E i \in 1..(Len(s) - 1) : s[i] = "<" /\ s[i + 1] # ">"

\* C11: sanitize is idempotent, sanitize(sanitize(x)) = sanitize(x): its result holds
\* no substring sanitize would still strip and no outer white space; the script element
\* around alert(1) becomes alert(1); a value that is not a string is returned unchanged.
C11_SanitizeIdempotent ==
  /\ text.applied = 2 => text.value = text.first
  /\ text.applied >= 1 /\ IsString(text.input) =>
       /\ IsString(text.first)
       /\ ~HasTag(text.first.s)
       /\ text.first.s = <<>> \/
            (text.first.s[1] \notin WhiteSpace
               /\ text.first.s[Len(text.first.s)] \notin WhiteSpace)
  /\ text.applied >= 1 /\ text.input = Str(Script) =>
       text.first = Str(<<"a","l","e","r","t","(","1",")">>)
  /\ text.applied >= 1 /\ ~IsString(text.input) => text.value = text.input

\* sanitize has run twice on a string that holds two tags and text between them
C11_Witness ==
  /\ text.applied = 2
  /\ text.input = Str(<<"<","a",">","a","<",">">>) \/ text.input = Str(<<"<","a",">","a","<">>)
  /\ text.value = text.first

RECURSIVE SumOver(_, _)
\* the sum of f over the set S of its arguments
SumOver(f, S) ==
  IF S = {} THEN 0
  ELSE LET k == CHOOSE x \in S : TRUE IN f[k] + SumOver(f, S \ {k})

\* the submissions of address ip that went past the limiter at an instant of [from, to)
ReachedIn(ip, from, to) ==
  SumOver(reached[ip], {t \in DOMAIN reached[ip] : from <= t /\ t < to})

\* the limiter answers 429 with its message, whatever the cookies and the body
LimiterAnswers ==
  /\ Arrived => (last.status = 429 <=> hits[last.ip].totalHits > RateMax)
  /\ last.status = 429 => last.op = "post" /\ last.message = "Too many requests."

\* C12 as stated: in any 15 minutes, that is from any instant a on and before
\* a + windowMs, at most limiter.max submissions of one address go past the limiter
\* to the CSRF check; the later ones are answered 429 with the limiter's message.
C12_AtMostTenInAnyWindow ==
  /\ \A ip \in IPs : \A a \in DOMAIN reached[ip] :
       ReachedIn(ip, a, a + WindowMs) <= RateMax
  /\ LimiterAnswers

\* C12, amended: in one window of the limiter, the 15 minutes that start with the
\* first submission of the address after its previous window ended, at most
\* limiter.max submissions go past the limiter to the CSRF check; every submission
\* counts, also one answered 403 or 400, and the later ones of the window are
\* answered 429 with the limiter's message whatever their cookies and body.
C12_AtMostTenPerLimiterWindow ==
  /\ \A ip \in IPs :
       LET client == hits[ip]
           inWindow == ReachedIn(ip, client.resetTime - WindowMs, client.resetTime)
       IN  /\ inWindow <= RateMax
           /\ inWindow = IF client.totalHits > RateMax THEN RateMax ELSE client.totalHits
  /\ LimiterAnswers

\* the eleventh submission of the second window carries the cookies issued to the
\* client and a valid body, and it is answered 429
C12_Witness ==
  /\ RateLimited
  /\ last.body = 1
  /\ last.sid \in DOMAIN tokenStore
  /\ validateCsrfToken(last.sid, last.token)
  /\ hits[last.ip].totalHits = RateMax + 1
  /\ now >= WindowMs

\* the digit a character of Digit stands for
DigitValue(c) == CHOOSE d \in 0..9 : DigitChar(d) = c

RECURSIVE DigitsValue(_)
\* the number a sequence of digits writes
DigitsValue(digits) ==
  IF digits = <<>> THEN 0
  ELSE 10 * DigitsValue(SubSeq(digits, 1, Len(digits) - 1)) + DigitValue(digits[Len(digits)])

\* PENA- and exactly 8 decimal digits
IsReference(ref) ==
  /\ Len(ref) = 13
  /\ SubSeq(ref, 1, 5) = <<"P","E","N","A","-">>
  /\ AllIn(SubSeq(ref, 6, 13), Digit)

\* PENA- and the 8 digits that end the epoch milliseconds of instant t
IsReferenceOf(ref, t) == IsReference(ref) /\ DigitsValue(SubSeq(ref, 6, 13)) = t % 100000000

\* the reference is generated when the submission is handed to the relay, and the
\* callback of a relay call that succeeded answers 200 with the reference of its request
ReferenceIsAnswered ==
  /\ last.op = "sendMail" =>
       /\ IsReferenceOf(last.ref, now)
       /\ \E p \in pending : p.slot = last.slot /\ p.ref = last.ref
  /\ \A p \in pending : IsReference(p.ref)
  /\ last.op = "callback" /\ ~last.relayError => last.status = 200 /\ IsReference(last.ref)

\* C13: a submission whose fields all satisfy their constraints and that passed the
\* CSRF gate is handed to the relay with a reference PENA- plus the last 8 digits of
\* the epoch milliseconds of that instant, and when the relay succeeds it is answered
\* 200 with that reference.
C13_ValidSubmissionGetsReference ==
  /\ (/\ PassedCsrf
      /\ last.body # 0
      /\ ValidationErrorsStrict(Bodies[last.body], now) = {}) => last.op = "sendMail"
  /\ ReferenceIsAnswered

\* C14: a record leaves the token store only in the callback of a successful submission
\* of its session, or in the sweep of an issuance once its expiry instant has passed;
\* the issuance keeps the record it has just written and the unexpired records of the
\* other sessions as they are; a submission that arrives (limiter, CSRF validation,
\* field checks) and the passing of time leave the store as it is, expired records
\* included.
C14_RemovedOnlyByConsumptionOrSweep ==
  [][ /\ \A k \in DOMAIN tokenStore \ DOMAIN tokenStore' :
           \/ last'.op = "callback" /\ last'.status = 200 /\ last'.sid = k
           \/ last'.op = "issue" /\ last'.sid # k /\ tokenStore[k].expires < now
      /\ last'.op = "issue" =>
           /\ last'.sid \in DOMAIN tokenStore'
           /\ \A k \in DOMAIN tokenStore \ {last'.sid} :
                tokenStore[k].expires >= now =>
                  k \in DOMAIN tokenStore' /\ tokenStore'[k] = tokenStore[k]
      /\ last'.op \in {"post", "sendMail", "tick"} => tokenStore' = tokenStore
    ]_vars

\* an issuance for another session has swept the expired record of session 1, which
\* no submission had consumed
C14_Witness ==
  /\ last.op = "issue"
  /\ last.sid = 0
  /\ nextSession = 2
  /\ DOMAIN tokenStore = {0}
  /\ pending = {}
  /\ \A t \in DOMAIN okCount : okCount[t] = 0

\* a step in which the relay is invoked follows the limiter, validateCsrfToken and a
\* field validation without errors, errorsOf being the validation; a submission
\* answered at once invokes no relay; the limiter answers before validateCsrfToken,
\* and validateCsrfToken before the field validation
RelayAfterChecks(errorsOf(_, _)) ==
  /\ pending' \ pending # {} => last'.op = "sendMail"
  /\ last'.op = "sendMail" =>
       /\ hits'[last'.ip].totalHits <= RateMax
       /\ CsrfPasses(tokenStore, now, last'.sid, last'.token)
       /\ last'.body # 0
       /\ errorsOf(Bodies[last'.body], now) = {}
       /\ \E p \in pending' \ pending : p.slot = last'.slot /\ p.body = last'.body
  /\ last'.op = "post" =>
       /\ last'.status \in {429, 403, 400, 500}
       /\ pending' = pending
       /\ last'.status = 429 <=> hits'[last'.ip].totalHits > RateMax
       /\ last'.status = 403 <=>
            /\ hits'[last'.ip].totalHits <= RateMax
            /\ ~CsrfPasses(tokenStore, now, last'.sid, last'.token)

\* C15: the relay is invoked for a submission only after it has passed the limiter,
\* then validateCsrfToken, then the validation of all its fields; a submission
\* answered 429, 403 or 400 invokes no relay; a submission with a bad token and a bad
\* body is answered 403.
C15_RelayOnlyAfterAllChecks == [][RelayAfterChecks(ValidationErrorsStrict)]_vars

\* the same with the checks the handler of src/server.js runs inline
RelayAfterInlineChecks == [][RelayAfterChecks(ValidationErrors)]_vars

\* the requests that wait for the relay, by their slot
Waiting == {p.slot : p \in pending}

\* a step answers at most one request, with a status of the interface; a request is
\* answered when it arrives and then does not wait for the relay, or it waits for the
\* relay without an answer and is answered by its callback, which ends its wait
OneResponse ==
  /\ last'.op = "post" =>
       /\ last'.status \in {400, 403, 429, 500}
       /\ pending' = pending
       /\ last'.status = 500 => last'.message = "Terjadi kesalahan pada server"
  /\ last'.op = "sendMail" =>
       /\ last'.status = 0
       /\ last'.slot \notin Waiting
       /\ \E p \in pending' : p.slot = last'.slot /\ pending' = pending \cup {p}
  /\ last'.op = "callback" =>
       /\ last'.slot \in Waiting
       /\ \E p \in pending : p.slot = last'.slot /\ pending' = pending \ {p}
       /\ Cardinality(pending') = Cardinality(pending) - 1
       /\ last'.status = IF last'.relayError THEN 500 ELSE 200
       /\ last'.relayError => last'.message = "Gagal mengirim email"
  /\ last'.op \in {"issue", "tick"} => pending' = pending
  /\ Cardinality(Waiting') = Cardinality(pending')

\* C16: a submission is answered at most once, with status 200, 400, 403, 429 or 500;
\* the relay calling back for every call, a submission that waits for the relay is
\* eventually answered by its callback; a relay error and an exception are answered
\* 500 with a fixed message.
C16_ExactlyOneResponse ==
  /\ [][OneResponse]_vars
  /\ \A slot \in 1..MaxPending :
       (slot \in Waiting) ~> (last.op = "callback" /\ last.slot = slot)

\* the relay has failed for one request while another one waits: the first is
\* answered 500 with the fixed message
C16_Witness ==
  /\ last.op = "callback"
  /\ last.relayError
  /\ last.status = 500
  /\ last.message = "Gagal mengirim email"
  /\ pending # {}

\* the model still has a token to mint, and a session identifier if one is needed
CanMint(cookieSid) ==
  nextToken <= MaxTokens /\ (cookieSid = NoCookie => nextSession <= MaxSessions)

\* the model follows the limiter's window of ip for one more request
CanCount(ip) ==
  LET client == Increment(hits[ip], now)
  IN  client.totalHits <= MaxHits \/ client.totalHits = RateMax + 1

\* C17: while a submission waits for a relay call that does not return, every other
\* request is processed and answered in its own step: an issuance for any session,
\* the same one included, is answered 200; a submission from any session is answered
\* at once or handed to the relay in its turn; the callback of any other waiting
\* request can run. Nothing a waiting request holds makes another request wait.
C17_WaitingBlocksNoOne ==
  pending # {} =>
    /\ \A cookieSid \in {NoCookie} \cup 0..(nextSession - 1) :
         CanMint(cookieSid) =>
           ENABLED (GetCsrfToken(cookieSid) /\ last'.status = 200)
    /\ \A ip \in IPs, sessionId \in {NoCookie} \cup 0..(nextSession - 1),
          csrfToken \in {NoCookie} \cup 0..(nextToken - 1), b \in {0, 1, 2} :
         CanCount(ip) /\ Cardinality(pending) < MaxPending =>
           ENABLED (/\ SendComplaint(ip, sessionId, csrfToken, b)
                    /\ last'.status # 0 \/ last'.op = "sendMail")
    /\ \A p \in pending, error \in BOOLEAN :
         ENABLED (SendMailCallback(p, error) /\ last'.status \in {200, 500})

\* a submission of a session waits for the relay, and the session has been issued a
\* new token in the meantime
C17_Witness ==
  /\ last.op = "issue"
  /\ last.status = 200
  /\ \E p \in pending : p.sid = last.sid
  /\ Cardinality(pending) < MaxPending

\* C18: the consumption of a successful submission removes only the record that holds
\* the token the submission validated: when the session has been issued a new token
\* while the relay call was pending, the callback leaves the new record in the store,
\* and the new token passes validation as long as it has not expired.
C18_ConsumptionKeepsNewerToken ==
  [][ (/\ last'.op = "callback"
       /\ last'.status = 200
       /\ last'.sid \in DOMAIN tokenStore
       /\ tokenStore[last'.sid].token # last'.token)
        => /\ last'.sid \in DOMAIN tokenStore'
           /\ tokenStore'[last'.sid] = tokenStore[last'.sid]
           /\ ~Expired(tokenStore[last'.sid], now) =>
                CsrfPasses(tokenStore', now, last'.sid, tokenStore[last'.sid].token)
    ]_vars

====
